---- MODULE Spec2Model ----
(***************************************************************************)
(* Token lifecycle (starlink_sdk/auth.py, TokenManager) and authenticated  *)
(* request dispatch (starlink_sdk/client.py, StarlinkClient._make_request) *)
(* of the Starlink SDK, as a state machine.                                *)
(*                                                                         *)
(* Processes 1..NumCallers are threads that each call get_auth_header on   *)
(* one shared TokenManager (specification Spec); process 0 runs one        *)
(* _make_request call, which calls get_auth_header itself (specification   *)
(* SpecReq, and SpecReqFair for termination); in SpecAuth one thread calls *)
(* get_auth_header several times in a row.  Time is a global clock in      *)
(* seconds that the environment advances.                                  *)
(***************************************************************************)
EXTENDS Integers, Sequences, FiniteSets, TLC

\* ---- bounds of the model ----
NumCallers == 2        \* threads calling get_auth_header directly
MaxTime == 3           \* the clock runs over 0..MaxTime
MaxWindow == 2         \* expires_in ranges over SKEW..SKEW+MaxWindow
MaxRetriesBound == 2   \* max_retries ranges over -1..MaxRetriesBound
MaxCalls == 3          \* get_auth_header calls one thread makes in a row
LimitMargin == 3       \* limits passed range over -LimitMargin..500+LimitMargin
MaxServerPages == 3    \* pages the listed collection has; max_pages goes one beyond
MaxIdChars == 2        \* freely chosen characters at the head of a terminal id
MaxRaises == 2         \* times the list method raises under one PaginationHelper

\* ---- program constants ----
SKEW == 30             \* timedelta(seconds=30) in _is_token_valid
MinLimit == 1          \* the 1 of min(max(limit, 1), 500)
MaxLimit == 500        \* the 500 of min(max(limit, 1), 500)
MaxIdLen == 64         \* len(terminal_id) <= 64 in validate_terminal_id
NoToken == 0           \* self._token = None
NoExpiry == 0          \* self._token_expires_at = None
TransportFailure == 0  \* no HTTP response at all (requests.RequestException)
DefaultMaxRetries == 3 \* max_retries: int = 3
NoHeader == 0          \* headers: Optional[dict] = None (or no Authorization key)
CallerAuth == -1       \* an Authorization value of the caller's own in headers
NoCause == 0           \* cause: Optional[Exception] = None; __cause__ not set
DefaultTimeout == 30   \* timeout: float = 30.0
NoTimeout == 0         \* a requests call given no timeout argument (timeout=None)

Dispatcher == 0
Callers == 1..NumCallers
Procs == 0..NumCallers

\* expires_in values the token endpoint may answer: SKEW itself gives a token
\* that is never fresh (as any smaller value does), SKEW+k one that is fresh
\* for k seconds.
ExpiresIn == SKEW..(SKEW + MaxWindow)

\* ways the refresh can fail before line 88: raise_for_status on a 401, 403 or
\* other error status, no answer at all, or a body that response.json() or
\* TokenResponse(**...) rejects
RefreshFailures == {"http401", "http403", "http500", "transport", "badbody"}

\* status codes one requests.request call may be answered with (no answer at
\* all is TransportFailure)
Statuses == {200, 401, 403, 404, 422, 429, 500}

\* bodies an error response may carry: its raw text and what response.json()
\* makes of it ("invalid" when it raises)
Bodies ==
    { [text |-> "{\"error\": \"x\"}", parsed |-> "error=x"],
      [text |-> "oops", parsed |-> "invalid"] }

\* an argument that is None, and an environment variable that is not set
\* (os.getenv gives None)
None == "<None>"

\* no header besides Authorization; a dict is the set of its entries
NoOthers == {}

\* the arguments of _make_request other than an Authorization header: a GET
\* with query parameters (client.py:278), and a PATCH with a body and an
\* Idempotency-Key (client.py:414-423), its endpoint written without the
\* leading slash
PlainRequest ==
    [method |-> "GET", endpoint |-> <<"/", "v1", "/", "terminals">>,
     params |-> "limit=100", json |-> None, others |-> NoOthers]
KeyedRequest ==
    [method |-> "PATCH", endpoint |-> <<"v1", "/", "alerts">>,
     params |-> None, json |-> "{\"status\": \"acknowledged\"}",
     others |-> {[name |-> "Idempotency-Key", value |-> "unique_key_456"]}]
RequestArgs == {PlainRequest, KeyedRequest}

\* no argument given (None), and no value produced
NoArg == [kind |-> "none"]
NoResult == [kind |-> "none"]

\* no StarlinkClient has been constructed; attrs are the attributes assigned
NoClient == [res |-> "none", attrs |-> {}]

\* a StarlinkClient with all the attributes __init__ assigns
BuiltClient ==
    [res |-> "built",
     attrs |-> {"environment", "base_url", "timeout", "token_manager", "max_retries",
                "fleet", "terminals", "alerts", "telemetry"}]

\* no utility call has been made; no get_all_items call is running
NoPager == [state |-> "none"]

\* no detail: the error raised has no detail attribute set
NoDetail == <<"none", "">>

\* no error response has ended the call
NoBody == [text |-> "", parsed |-> "none"]

\* the error raised has neither a cause attribute nor a __cause__; a cause is
\* named by the number of the attempt whose exception it is
NoCauses == [attr |-> NoCause, chained |-> NoCause]

VARIABLES
    now,               \* datetime.now(timezone.utc), in seconds
    token,             \* TokenManager._token (a token is named by its serial number)
    token_expires_at,  \* TokenManager._token_expires_at
    refresh_lock,      \* TokenManager._refresh_lock: the set of its holders
    pc,                \* position of each process inside get_token
    ret,               \* value returned by each process's last get_token call
    cause,             \* cause of the AuthenticationError it raised, "" if none
    pend,              \* token_data.expires_in held between lines 88 and 91
    minted,            \* history: <<[t0, e]>> of every completed refresh, by token
    jtok, jexp, jnow,  \* history: token, expiry and instant of the call's last freshness test
    nposts,            \* history: POSTs issued by the call
    got,               \* history: outcome of the refresh in flight when the call arrived
    exc,               \* class of the exception the call raised, "" if none
    prior,             \* history: the thread's previous call raised
    ncalls,            \* history: calls a thread has made after its first
    max_retries,       \* StarlinkClient.max_retries
    dpc,               \* position of process 0 inside _make_request
    attempt,           \* loop variable of _make_request
    hdr,               \* request_headers["Authorization"]
    outs,              \* history: outcome of every attempt, in order
    sent,              \* history: token carried by every attempt, in order
    forced,            \* history: POSTs issued by the calls made after a 401
    dres,              \* how _make_request ended
    dstatus,           \* status_code of the StarlinkAPIError raised
    ddetail,           \* detail of the StarlinkAPIError raised
    dbody,             \* history: body of the error response that ended the call
    headers,           \* the headers argument: its Authorization entry
    obt,               \* history: tokens get_auth_header returned to this request
    dcause,            \* cause attribute and __cause__ of the error _make_request raised
    touts,             \* history: timeout argument of every attempt, in order
    ptout,             \* history: timeout arguments given to the refresh POSTs
    timeout,           \* StarlinkClient.timeout
    api_secret,        \* the api_secret argument of a construction
    env_secret,        \* os.environ: STARLINK_API_SECRET
    environment,       \* the environment argument of StarlinkClient
    env_environment,   \* os.environ: STARLINK_ENVIRONMENT
    tmobj,             \* the TokenManager the threads call: what its construction gave
    clientobj,         \* what the construction of a StarlinkClient gave
    token2,            \* _token of a second TokenManager instance
    token_expires_at2, \* _token_expires_at of that instance
    uop, uarg, ures,   \* a utility function called, its argument and its result
    pager,             \* a PaginationHelper and the get_all_items call running on it
    rargs,             \* method, endpoint, params, json and headers of the request
    xhdr,              \* request_headers: the entries other than Authorization
    wire               \* history: what every attempt passed to requests.request

tmvars == <<token, token_expires_at, refresh_lock>>
callvars == <<pc, ret, cause, pend, minted, jtok, jexp, jnow, nposts, got, exc, prior, ncalls>>
dvars == <<max_retries, dpc, attempt, hdr, outs, sent, forced, dres, dstatus, ddetail,
          dbody, headers, obt, dcause, touts, ptout>>
cvars == <<timeout, api_secret, env_secret, environment, env_environment, tmobj, clientobj,
          token2, token_expires_at2, uop, uarg, ures, pager>>
xvars == <<cvars, rargs, xhdr, wire>>
vars == <<now, token, token_expires_at, refresh_lock,
          pc, ret, cause, pend, minted, jtok, jexp, jnow, nposts, got, exc, prior, ncalls,
          max_retries, dpc, attempt, hdr, outs, sent, forced, dres, dstatus, ddetail,
          dbody, headers, obt, dcause, touts, ptout,
          timeout, api_secret, env_secret, environment, env_environment, tmobj, clientobj,
          token2, token_expires_at2, uop, uarg, ures, pager, rargs, xhdr, wire>>

NoRefresh == [k |-> "none", by |-> 0, tok |-> NoToken]

\* ---- TokenManager ----

\* _is_token_valid with the comparison turned around at the boundary
is_token_valid_Inclusive(tok, exp, t) ==
    /\ tok # NoToken
    /\ exp # NoExpiry
    /\ t <= exp - SKEW

\* _is_token_valid with the comparison reversed
is_token_valid_Reversed(tok, exp, t) ==
    /\ tok # NoToken
    /\ exp # NoExpiry
    /\ t > exp - SKEW

\* auth.py:68-74
is_token_valid(tok, exp, t) ==
    /\ tok # NoToken
    /\ exp # NoExpiry
    /\ t < exp - SKEW

\* the base class of each exception class (exceptions.py, auth.py:14, and the
\* classes of requests and pydantic the handlers meet)
Parent(c) ==
    CASE c = "StarlinkClientError" -> "StarlinkError"
      [] c = "StarlinkAPIError" -> "StarlinkError"
      [] c = "exceptions.AuthenticationError" -> "StarlinkError"
      [] c = "RateLimitError" -> "StarlinkAPIError"
      [] c = "ValidationError" -> "StarlinkAPIError"
      [] c = "NotFoundError" -> "StarlinkAPIError"
      [] c = "PermissionError" -> "StarlinkAPIError"
      [] c = "StarlinkError" -> "Exception"
      [] c = "AuthenticationError" -> "Exception"
      [] c = "requests.HTTPError" -> "requests.RequestException"
      [] c = "requests.ConnectionError" -> "requests.RequestException"
      [] c = "requests.RequestException" -> "Exception"
      [] c = "pydantic.ValidationError" -> "Exception"
      [] c = "OverflowError" -> "ArithmeticError"
      [] c = "ArithmeticError" -> "Exception"
      [] c = "Exception" -> "BaseException"
      [] OTHER -> "object"

\* issubclass(c, d)
RECURSIVE IsA(_, _)
IsA(c, d) == c = d \/ (c # "object" /\ IsA(Parent(c), d))

\* the exception the failed refresh raises inside the try block
Underlying(c) ==
    CASE c \in {"http401", "http403", "http500"} -> "requests.HTTPError"
      [] c = "transport" -> "requests.ConnectionError"
      [] c = "badbody" -> "pydantic.ValidationError"
      [] c = "overflow" -> "OverflowError"

\* the handlers of _refresh_token with the second one catching only
\* requests.RequestException
RefreshRaises_Narrow(c) ==
    IF IsA(Underlying(c), "requests.HTTPError") THEN "AuthenticationError"
    ELSE IF IsA(Underlying(c), "requests.RequestException") THEN "AuthenticationError"
    ELSE Underlying(c)

\* auth.py:94-102: the class that leaves _refresh_token; "AuthenticationError"
\* is the class of auth.py:14
RefreshRaises(c) ==
    IF IsA(Underlying(c), "requests.HTTPError") THEN "AuthenticationError"
    ELSE IF IsA(Underlying(c), "Exception") THEN "AuthenticationError"
    ELSE Underlying(c)

\* the expiry that a refresh stored with token tok
ExpiryOf(tok) ==
    IF tok \in 1..Len(minted) THEN minted[tok].t0 + minted[tok].e ELSE NoExpiry

InFlight == {p \in Procs : pc[p] = "await"}

\* TokenManager.__init__ (auth.py:36-44); nothing has been requested yet
InitCalls ==
    /\ now = 0
    /\ refresh_lock = {}
    /\ pc = [p \in Procs |-> "idle"]
    /\ ret = [p \in Procs |-> NoToken]
    /\ cause = [p \in Procs |-> ""]
    /\ pend = [p \in Procs |-> 0]
    /\ jtok = [p \in Procs |-> NoToken]
    /\ jexp = [p \in Procs |-> NoExpiry]
    /\ jnow = [p \in Procs |-> 0]
    /\ nposts = [p \in Procs |-> 0]
    /\ got = [p \in Procs |-> NoRefresh]
    /\ exc = [p \in Procs |-> ""]
    /\ prior = [p \in Procs |-> FALSE]
    /\ ncalls = 0
    /\ dpc = "init"
    /\ attempt = 0
    /\ hdr = NoToken
    /\ outs = <<>>
    /\ sent = <<>>
    /\ forced = 0
    /\ dres = "none"
    /\ dstatus = 0
    /\ ddetail = NoDetail
    /\ dbody = NoBody
    /\ obt = <<>>
    /\ dcause = NoCauses
    /\ touts = <<>>
    /\ xhdr = NoOthers
    /\ wire = <<>>
    /\ token2 = NoToken
    /\ token_expires_at2 = NoExpiry
    /\ uop = ""
    /\ uarg = NoArg
    /\ ures = NoResult

\* auth.py:42-43: no token is stored and no refresh has been made
NoStore ==
    /\ token = NoToken
    /\ token_expires_at = NoExpiry
    /\ minted = <<>>
    /\ ptout = {}

\* nothing requested, nothing stored, and no PaginationHelper made
InitCommon ==
    /\ InitCalls
    /\ NoStore
    /\ pager = NoPager

\* a TokenManager constructed with an explicit credential
BuiltManager ==
    /\ api_secret = "s3cr3t"
    /\ env_secret = None
    /\ environment = "production"
    /\ env_environment = None
    /\ tmobj = "built"
    /\ timeout = DefaultTimeout

\* a client built with the default max_retries, used by threads
Init ==
    /\ rargs = PlainRequest
    /\ InitCommon
    /\ BuiltManager
    /\ clientobj = NoClient
    /\ max_retries = DefaultMaxRetries
    /\ headers = NoHeader

\* a client object with any max_retries (its token_manager, base_url, timeout
\* and max_retries attributes set), about to dispatch one request with or
\* without an Authorization header of the caller's
InitReq ==
    /\ rargs = PlainRequest
    /\ InitCommon
    /\ BuiltManager
    /\ clientobj = BuiltClient
    /\ max_retries \in (-1)..MaxRetriesBound
    /\ headers \in {NoHeader, CallerAuth}

\* ---- construction ----

\* values of the api_secret argument, of STARLINK_API_SECRET, of the
\* environment argument and of STARLINK_ENVIRONMENT
SecretArgs == {None, "", "s3cr3t"}
EnvSecrets == {None, "", "env-s3cr3t"}
EnvironmentArgs == {None, "production", "Staging", "nowhere"}
EnvEnvironments == {None, "nowhere"}

\* client.py:57-63: the keys of ENVIRONMENT_URLS
EnvironmentUrls == {"production", "staging", "development", "demo", "local"}

\* bool(x) of an optional string
Truthy(x) == x \notin {None, ""}

\* a or b
Or(a, b) == IF Truthy(a) THEN a ELSE b

\* str.lower on the names used here
Lower(x) == IF x = "Staging" THEN "staging" ELSE x

\* auth.py:22-27: the parameters TokenManager.__init__ accepts
TokenManagerParams == {"base_url", "api_secret", "session"}

\* TokenManager(**keywords) with the given api_secret: a keyword that is no
\* parameter is a TypeError before the body runs; the body (auth.py:36-39)
\* raises AuthenticationError when no credential resolves
TokenManagerInit(keywords, secret) ==
    IF keywords \ TokenManagerParams # {} THEN "TypeError"
    ELSE IF ~Truthy(Or(secret, env_secret)) THEN "AuthenticationError"
    ELSE "built"

\* a constructor that fetches a token at once
NewTokenManager_Eager ==
    /\ tmobj = "none"
    /\ tmobj' = TokenManagerInit({"base_url", "api_secret"}, api_secret)
    /\ IF tmobj' = "built"
       THEN /\ token' = Len(minted) + 1
            /\ token_expires_at' = now + SKEW + 1
            /\ minted' = Append(minted, [t0 |-> now, e |-> SKEW + 1])
            /\ ptout' = ptout \cup {NoTimeout}
            /\ refresh_lock' = {}
       ELSE UNCHANGED <<token, token_expires_at, refresh_lock, minted, ptout>>
    /\ UNCHANGED <<now, pc, ret, cause, pend, jtok, jexp, jnow, nposts, got, exc, prior, ncalls,
                   max_retries, dpc, attempt, hdr, outs, sent, forced, dres, dstatus, ddetail,
                   dbody, headers, obt, dcause, touts,
                   timeout, api_secret, env_secret, environment, env_environment, clientobj,
                   token2, token_expires_at2, uop, uarg, ures, pager, rargs, xhdr, wire>>

\* TokenManager(base_url=..., api_secret=api_secret), auth.py:22-44: on
\* success the store is empty and the lock free; no request is made
NewTokenManager ==
    /\ tmobj = "none"
    /\ tmobj' = TokenManagerInit({"base_url", "api_secret"}, api_secret)
    /\ IF tmobj' = "built"
       THEN /\ token' = NoToken
            /\ token_expires_at' = NoExpiry
            /\ refresh_lock' = {}
       ELSE UNCHANGED <<token, token_expires_at, refresh_lock>>
    /\ UNCHANGED <<now, pc, ret, cause, pend, minted, jtok, jexp, jnow, nposts, got, exc, prior, ncalls,
                   max_retries, dpc, attempt, hdr, outs, sent, forced, dres, dstatus, ddetail,
                   dbody, headers, obt, dcause, touts, ptout,
                   timeout, api_secret, env_secret, environment, env_environment, clientobj,
                   token2, token_expires_at2, uop, uarg, ures, pager, rargs, xhdr, wire>>

\* client.py:83-87: the environment name the client settles on
ResolvedEnvironment == Lower(Or(Or(environment, env_environment), "production"))

\* StarlinkClient(environment=environment, api_secret=api_secret,
\* timeout=timeout, max_retries=max_retries), client.py:65-114: ValueError
\* for an unknown environment; else environment, base_url and timeout are
\* assigned and TokenManager(base_url=..., api_secret=..., timeout=...) is
\* called; what it raises leaves __init__, and the rest is assigned only when
\* it returns
NewClient ==
    /\ clientobj = NoClient
    /\ clientobj' =
          IF ResolvedEnvironment \notin EnvironmentUrls
          THEN [res |-> "ValueError", attrs |-> {}]
          ELSE LET r == TokenManagerInit({"base_url", "api_secret", "timeout"}, api_secret)
               IN  IF r = "built"
                   THEN BuiltClient
                   ELSE [res |-> r, attrs |-> {"environment", "base_url", "timeout"}]
    /\ UNCHANGED <<now, tmvars, callvars, dvars,
                   timeout, api_secret, env_secret, environment, env_environment, tmobj,
                   token2, token_expires_at2, uop, uarg, ures, pager, rargs, xhdr, wire>>

\* _refresh_token on a second TokenManager instance, whole (auth.py:76-92):
\* the POST is answered with a token good for e seconds, and the instance's
\* own self._token and self._token_expires_at are assigned
OtherRefresh(e) ==
    /\ e \in ExpiresIn
    /\ token2 < MaxCalls
    /\ token2' = token2 + 1
    /\ token_expires_at2' = now + e
    /\ UNCHANGED <<now, tmvars, callvars, dvars,
                   timeout, api_secret, env_secret, environment, env_environment, tmobj,
                   clientobj, uop, uarg, ures, pager, rargs, xhdr, wire>>

\* ---- limit clamping ----

\* everything the module-level helpers and the facades' parameter building
\* leave alone
helperframe == <<now, tmvars, callvars, dvars, timeout, api_secret, env_secret, environment,
                 env_environment, tmobj, clientobj, token2, token_expires_at2, pager,
                 rargs, xhdr, wire>>

\* Python's max(a, b) and min(a, b): the first argument unless the second is
\* strictly greater (smaller)
Max(a, b) == IF b > a THEN b ELSE a
Min(a, b) == IF b < a THEN b ELSE a

\* the integers a caller may pass as limit
LimitArgs == (-LimitMargin)..(MaxLimit + LimitMargin)

\* a str value, as its characters
StrVal(cs) == [kind |-> "str", val |-> cs]

IntArg(n) == [kind |-> "int", val |-> n]
IntResult(n) == [kind |-> "int", val |-> n]
StrResult(cs) == [kind |-> "str", val |-> cs]

Digits == <<"0", "1", "2", "3", "4", "5", "6", "7", "8", "9">>

\* str(n) of an int: its decimal digits, most significant first, after a
\* minus sign when n is negative
RECURSIVE StrNat(_)
StrNat(n) == IF n < 10 THEN <<Digits[n + 1]>>
                       ELSE Append(StrNat(n \div 10), Digits[(n % 10) + 1])
Str(n) == IF n < 0 THEN <<"-">> \o StrNat(-n) ELSE StrNat(n)

\* int(s) of a string of decimal digits
RECURSIVE ParseNat(_)
ParseNat(cs) ==
    IF cs = <<>> THEN 0
    ELSE 10 * ParseNat(SubSeq(cs, 1, Len(cs) - 1))
            + (CHOOSE d \in 0..9 : Digits[d + 1] = cs[Len(cs)])

\* min(limit, 500): a clamp without the lower end
Clamp_NoFloor(limit) == Min(limit, MaxLimit)
\* min(max(limit, 1), 500), client.py:271, client.py:361, utils.py:172
Clamp(limit) == Min(Max(limit, MinLimit), MaxLimit)

\* TerminalsAPI.list(limit=limit), client.py:271: params['limit']
TerminalsList(limit) ==
    /\ uop' = "TerminalsAPI.list"
    /\ uarg' = IntArg(limit)
    /\ ures' = IntResult(Clamp(limit))
    /\ UNCHANGED helperframe

\* AlertsAPI.list(limit=limit), client.py:359-362: params['limit']
AlertsList(limit) ==
    /\ uop' = "AlertsAPI.list"
    /\ uarg' = IntArg(limit)
    /\ ures' = IntResult(Clamp(limit))
    /\ UNCHANGED helperframe

\* build_query_params(limit=limit), utils.py:171-172: params['limit'] is the
\* clamped value's str(), and there is no such key when limit is None
BuildQueryParams(limit) ==
    /\ uop' = "build_query_params"
    /\ uarg' = limit
    /\ ures' = IF limit.kind = "none" THEN NoResult ELSE StrResult(Str(Clamp(limit.val)))
    /\ UNCHANGED helperframe

\* ---- validate_terminal_id ----

\* the characters str.isalnum accepts, among those of ASCII
AlnumChars ==
    {"a", "b", "c", "d", "e", "f", "g", "h", "i", "j", "k", "l", "m",
     "n", "o", "p", "q", "r", "s", "t", "u", "v", "w", "x", "y", "z",
     "A", "B", "C", "D", "E", "F", "G", "H", "I", "J", "K", "L", "M",
     "N", "O", "P", "Q", "R", "S", "T", "U", "V", "W", "X", "Y", "Z",
     "0", "1", "2", "3", "4", "5", "6", "7", "8", "9"}

\* the characters the ids tried are made of
IdChars == {"a", "Z", "7", "-", "_", " ", "!"}

\* the sequences over S of length n, and of length at most n
RECURSIVE SeqsOfLen(_, _)
SeqsOfLen(S, n) ==
    IF n = 0 THEN {<<>>}
    ELSE {Append(cs, c) : cs \in SeqsOfLen(S, n - 1), c \in S}
SeqsUpTo(S, n) == UNION {SeqsOfLen(S, k) : k \in 0..n}

\* n times the character c
Repeat(c, n) == [i \in 1..n |-> c]

\* the ids tried: up to MaxIdChars characters, alone or followed by enough
\* letters to bring the length near the limit of 64
IdStrings ==
    {head \o Repeat("a", n) : head \in SeqsUpTo(IdChars, MaxIdChars),
                               n \in {0} \cup ((MaxIdLen - MaxIdChars)..(MaxIdLen + 1))}

\* what validate_terminal_id may be handed: a str, None or an int
TerminalIdArgs == {StrVal(cs) : cs \in IdStrings} \cup {NoArg, IntArg(123)}

BoolResult(b) == [kind |-> "bool", val |-> b]

\* s.replace(old, ''), old one character
Remove(cs, old) == SelectSeq(cs, LAMBDA c : c # old)

\* s.isalnum(): at least one character and every character alphanumeric
IsAlnum(cs) == cs # <<>> /\ \A i \in 1..Len(cs) : cs[i] \in AlnumChars

\* a length test of len(terminal_id) < 64
validate_terminal_id_Under(terminal_id) ==
    /\ terminal_id.kind = "str"
    /\ Len(terminal_id.val) > 0
    /\ Len(terminal_id.val) < MaxIdLen
    /\ IsAlnum(Remove(Remove(terminal_id.val, "-"), "_"))
\* validate_terminal_id, utils.py:69-74
validate_terminal_id(terminal_id) ==
    /\ terminal_id.kind = "str"
    /\ Len(terminal_id.val) > 0
    /\ Len(terminal_id.val) <= MaxIdLen
    /\ IsAlnum(Remove(Remove(terminal_id.val, "-"), "_"))

\* a caller validates terminal_id
ValidateTerminalId(terminal_id) ==
    /\ uop' = "validate_terminal_id"
    /\ uarg' = terminal_id
    /\ ures' = BoolResult(validate_terminal_id(terminal_id))
    /\ UNCHANGED helperframe

\* ---- PaginationHelper ----

\* everything a PaginationHelper leaves alone
pagerframe == <<now, tmvars, callvars, dvars, timeout, api_secret, env_secret, environment,
                env_environment, tmobj, clientobj, token2, token_expires_at2, uop, uarg, ures,
                rargs, xhdr, wire>>

\* bool(v) of None, a str or an int
Bool(v) ==
    CASE v.kind = "none" -> FALSE
      [] v.kind = "str" -> v.val # <<>>
      [] v.kind = "int" -> v.val # 0

\* the next_cursor a last page carries: None or the empty string
LastCursors == {NoArg, StrVal(<<>>)}

\* the max_pages a caller may pass: None, or an int from 0 up
MaxPagesArgs == {NoArg} \cup {IntArg(m) : m \in 0..(MaxServerPages + 1)}

\* PaginationHelper.__init__ (utils.py:200-204), over a collection of npages
\* pages whose last page carries the cursor last; the cursor of page k is
\* str(k).  History: calls counts the calls of the list method, asked is the
\* page the last of them asked for, raises counts those that raised and
\* failed is the page the last of these asked for
NewPager(npages, last) ==
    [state |-> "idle", next_cursor |-> NoArg, has_more |-> TRUE,
     npages |-> npages, last |-> last,
     max_pages |-> NoArg, page_count |-> 0, fetched |-> 0, ret |-> "nothing",
     calls |-> 0, asked |-> 0, raises |-> 0, failed |-> 0]

\* the list method called with params (utils.py:219-220): the page the
\* cursor names, the first one without a cursor, and the response's
\* next_cursor
PageFor(cursor) == IF Bool(cursor) THEN ParseNat(cursor.val) ELSE 1
NextCursorOf(pg, k) == IF k < pg.npages THEN StrVal(Str(k + 1)) ELSE pg.last

\* get_next_page calling the method whatever has_more says
NextPage_NoGuard(pg) ==
    LET k == PageFor(pg.next_cursor)
        c == NextCursorOf(pg, k)
    IN  [pg EXCEPT !.next_cursor = c,
                   !.has_more = Bool(c),
                   !.fetched = @ + 1,
                   !.calls = @ + 1,
                   !.asked = k,
                   !.ret = "page"]
\* get_next_page (utils.py:206-225) on pg: None without a call when has_more
\* is False; else one call of the method, next_cursor and has_more stored
NextPage(pg) ==
    IF ~pg.has_more
    THEN [pg EXCEPT !.ret = "None"]
    ELSE LET k == PageFor(pg.next_cursor)
             c == NextCursorOf(pg, k)
         IN  [pg EXCEPT !.next_cursor = c,
                        !.has_more = Bool(c),
                        !.fetched = @ + 1,
                        !.calls = @ + 1,
                        !.asked = k,
                        !.ret = "page"]

\* get_next_page with the cursor moved on before the call that raises
NextPageRaises_Advances(pg) ==
    LET k == PageFor(pg.next_cursor)
        c == NextCursorOf(pg, k)
    IN  [pg EXCEPT !.next_cursor = c,
                   !.has_more = Bool(c),
                   !.calls = @ + 1,
                   !.asked = k,
                   !.raises = @ + 1,
                   !.failed = k,
                   !.ret = "raised"]
\* get_next_page (utils.py:209-220) when has_more is True and the list method
\* raises at line 220: the exception leaves get_next_page at once, lines
\* 222-223 are not reached
NextPageRaises(pg) ==
    LET k == PageFor(pg.next_cursor)
    IN  [pg EXCEPT !.calls = @ + 1,
                   !.asked = k,
                   !.raises = @ + 1,
                   !.failed = k,
                   !.ret = "raised"]

\* the user calls get_next_page
GetNextPage ==
    /\ pager.state = "idle"
    /\ pager' = NextPage(pager)
    /\ UNCHANGED pagerframe

\* the user calls get_next_page and the list method raises
GetNextPageRaises ==
    /\ pager.state = "idle"
    /\ pager.has_more
    /\ pager.raises < MaxRaises
    /\ pager' = NextPageRaises(pager)
    /\ UNCHANGED pagerframe

\* the user calls get_all_items(max_pages), utils.py:237-238
GetAllItems(max_pages) ==
    /\ pager.state = "idle"
    /\ pager' = [pager EXCEPT !.state = "loop", !.max_pages = max_pages,
                              !.page_count = 0, !.fetched = 0]
    /\ UNCHANGED pagerframe

\* line 242: the loop is left when max_pages is truthy and page_count has
\* reached it
LimitReached(pg) == Bool(pg.max_pages) /\ pg.page_count >= pg.max_pages.val

\* one turn of the loop of get_all_items that fetches (utils.py:241-248)
FetchPage ==
    /\ pager.state = "loop"
    /\ pager.has_more
    /\ ~LimitReached(pager)
    /\ pager' = [NextPage(pager) EXCEPT !.page_count = @ + 1]
    /\ UNCHANGED pagerframe

\* a turn of the loop in which the list method raises: the exception leaves
\* get_next_page and get_all_items, which has no handler
FetchRaises ==
    /\ pager.state = "loop"
    /\ pager.has_more
    /\ ~LimitReached(pager)
    /\ pager.raises < MaxRaises
    /\ pager' = [NextPageRaises(pager) EXCEPT !.state = "idle"]
    /\ UNCHANGED pagerframe

\* the loop ends (utils.py:241-243) and all_items is returned (utils.py:252)
ReturnItems ==
    /\ pager.state = "loop"
    /\ ~pager.has_more \/ LimitReached(pager)
    /\ pager' = [pager EXCEPT !.state = "idle", !.ret = "items"]
    /\ UNCHANGED pagerframe

\* ---- get_token ----

\* a fresh get_token activation of process p
EnterGetToken(p) ==
    /\ pc' = [pc EXCEPT ![p] = "check"]
    /\ ret' = [ret EXCEPT ![p] = NoToken]
    /\ cause' = [cause EXCEPT ![p] = ""]
    /\ jtok' = [jtok EXCEPT ![p] = NoToken]
    /\ jexp' = [jexp EXCEPT ![p] = NoExpiry]
    /\ jnow' = [jnow EXCEPT ![p] = 0]
    /\ nposts' = [nposts EXCEPT ![p] = 0]
    /\ got' = [got EXCEPT ![p] = NoRefresh]
    /\ exc' = [exc EXCEPT ![p] = ""]
    /\ prior' = [prior EXCEPT ![p] = (pc[p] = "raised")]
    /\ UNCHANGED <<pend, minted>>

\* a thread calls get_auth_header
Call(p) ==
    /\ p \in Callers
    /\ tmobj = "built"
    /\ pc[p] = "idle"
    /\ EnterGetToken(p)
    /\ UNCHANGED <<now, xvars, tmvars, dvars, ncalls>>

\* a thread whose get_auth_header call has returned or raised calls again
CallAgain(p) ==
    /\ p \in Callers
    /\ pc[p] \in {"ret", "raised"}
    /\ ncalls < MaxCalls - 1
    /\ ncalls' = ncalls + 1
    /\ EnterGetToken(p)
    /\ UNCHANGED <<now, xvars, tmvars, dvars>>

\* the first freshness test made only while nobody holds the lock
FastCheck_UnderLock(p) ==
    /\ pc[p] = "check"
    /\ refresh_lock = {}
    /\ jtok' = [jtok EXCEPT ![p] = token]
    /\ jexp' = [jexp EXCEPT ![p] = token_expires_at]
    /\ jnow' = [jnow EXCEPT ![p] = now]
    /\ IF is_token_valid(token, token_expires_at, now)
       THEN /\ pc' = [pc EXCEPT ![p] = "fastret"]
            /\ got' = got
       ELSE /\ pc' = [pc EXCEPT ![p] = "acquire"]
            /\ got' = [got EXCEPT ![p] =
                         IF InFlight # {}
                         THEN [k |-> "wait", by |-> CHOOSE r \in InFlight : TRUE,
                               tok |-> NoToken]
                         ELSE NoRefresh]
    /\ UNCHANGED <<now, xvars, tmvars, ret, cause, pend, minted, nposts, exc, prior, ncalls, dvars>>

\* get_token line 57: the unlocked freshness test.  _is_token_valid reads
\* _token, _token_expires_at and the clock; the step takes them at one instant.
FastCheck(p) ==
    /\ pc[p] = "check"
    /\ jtok' = [jtok EXCEPT ![p] = token]
    /\ jexp' = [jexp EXCEPT ![p] = token_expires_at]
    /\ jnow' = [jnow EXCEPT ![p] = now]
    /\ IF is_token_valid(token, token_expires_at, now)
       THEN /\ pc' = [pc EXCEPT ![p] = "fastret"]
            /\ got' = got
       ELSE /\ pc' = [pc EXCEPT ![p] = "acquire"]
            /\ got' = [got EXCEPT ![p] =
                         IF InFlight # {}
                         THEN [k |-> "wait", by |-> CHOOSE r \in InFlight : TRUE,
                               tok |-> NoToken]
                         ELSE NoRefresh]
    /\ UNCHANGED <<now, xvars, tmvars, ret, cause, pend, minted, nposts, exc, prior, ncalls, dvars>>

\* get_token line 58: return self._token
FastReturn(p) ==
    /\ pc[p] = "fastret"
    /\ ret' = [ret EXCEPT ![p] = token]
    /\ pc' = [pc EXCEPT ![p] = "ret"]
    /\ UNCHANGED <<now, xvars, tmvars, cause, pend, minted, jtok, jexp, jnow, nposts, exc, prior, ncalls, got, dvars>>

\* get_token lines 60-62 entered without waiting for the lock to be free
Acquire_NoLock(p) ==
    /\ pc[p] = "acquire"
    /\ refresh_lock' = refresh_lock \cup {p}
    /\ jtok' = [jtok EXCEPT ![p] = token]
    /\ jexp' = [jexp EXCEPT ![p] = token_expires_at]
    /\ jnow' = [jnow EXCEPT ![p] = now]
    /\ pc' = [pc EXCEPT ![p] =
                IF is_token_valid(token, token_expires_at, now) THEN "lret" ELSE "post"]
    /\ UNCHANGED <<now, xvars, token, token_expires_at, ret, cause, pend, minted, nposts, exc, prior, ncalls, got, dvars>>

\* get_token lines 60-62 without the second freshness test
Acquire_NoRecheck(p) ==
    /\ pc[p] = "acquire"
    /\ refresh_lock = {}
    /\ refresh_lock' = {p}
    /\ jtok' = [jtok EXCEPT ![p] = token]
    /\ jexp' = [jexp EXCEPT ![p] = token_expires_at]
    /\ jnow' = [jnow EXCEPT ![p] = now]
    /\ pc' = [pc EXCEPT ![p] = "post"]
    /\ UNCHANGED <<now, xvars, token, token_expires_at, ret, cause, pend, minted, nposts, exc, prior, ncalls, got, dvars>>

\* get_token lines 60-62: take the lock, test freshness again
Acquire(p) ==
    /\ pc[p] = "acquire"
    /\ refresh_lock = {}
    /\ refresh_lock' = {p}
    /\ jtok' = [jtok EXCEPT ![p] = token]
    /\ jexp' = [jexp EXCEPT ![p] = token_expires_at]
    /\ jnow' = [jnow EXCEPT ![p] = now]
    /\ pc' = [pc EXCEPT ![p] =
                IF is_token_valid(token, token_expires_at, now) THEN "lret" ELSE "post"]
    /\ UNCHANGED <<now, xvars, token, token_expires_at, ret, cause, pend, minted, nposts, exc, prior, ncalls, got, dvars>>

\* get_token line 63: return self._token, leaving the with block
LockedReturn(p) ==
    /\ pc[p] = "lret"
    /\ ret' = [ret EXCEPT ![p] = token]
    /\ pc' = [pc EXCEPT ![p] = "ret"]
    /\ refresh_lock' = refresh_lock \ {p}
    /\ UNCHANGED <<now, xvars, token, token_expires_at, cause, pend, minted, jtok, jexp, jnow, nposts, exc, prior, ncalls, got, dvars>>

\* _refresh_token lines 80-84: the POST to /v1/auth/token is issued
Post(p) ==
    /\ pc[p] = "post"
    /\ pc' = [pc EXCEPT ![p] = "await"]
    /\ nposts' = [nposts EXCEPT ![p] = @ + 1]
    /\ forced' = IF p = Dispatcher /\ dpc = "reauth" THEN forced + 1 ELSE forced
    /\ ptout' = ptout \cup {NoTimeout}
    /\ UNCHANGED <<now, xvars, tmvars, ret, cause, pend, minted, jtok, jexp, jnow, got, exc, prior, ncalls,
                   max_retries, dpc, attempt, hdr, outs, sent, touts, dres, dstatus, ddetail, dbody, headers, obt, dcause>>

\* the callers that arrived during the POST now ending learn its outcome
Settle(k, tok) ==
    [q \in Procs |-> IF got[q].k = "wait" THEN [got[q] EXCEPT !.k = k, !.tok = tok]
                                          ELSE got[q]]

\* _refresh_token lines 85-88: a 2xx answer; self._token = access_token
PostOk(p, e) ==
    /\ pc[p] = "await"
    /\ e \in ExpiresIn
    /\ token' = Len(minted) + 1
    /\ pend' = [pend EXCEPT ![p] = e]
    /\ pc' = [pc EXCEPT ![p] = "setexp"]
    /\ got' = Settle("ok", Len(minted) + 1)
    /\ UNCHANGED <<now, xvars, token_expires_at, refresh_lock, ret, cause, minted, jtok, jexp, jnow,
                   nposts, exc, prior, ncalls, dvars>>

\* a failed POST whose failure is also raised in the callers waiting for the lock
PostFail_Shared(p, c) ==
    /\ pc[p] = "await"
    /\ c \in RefreshFailures
    /\ cause' = [q \in Procs |-> IF q = p \/ pc[q] = "acquire" THEN c ELSE cause[q]]
    /\ exc' = [q \in Procs |-> IF q = p \/ pc[q] = "acquire" THEN RefreshRaises(c) ELSE exc[q]]
    /\ pc' = [q \in Procs |-> IF q = p \/ pc[q] = "acquire" THEN "raised" ELSE pc[q]]
    /\ refresh_lock' = refresh_lock \ {p}
    /\ got' = Settle("fail", NoToken)
    /\ UNCHANGED <<now, xvars, token, token_expires_at, ret, pend, minted, jtok, jexp, jnow,
                   nposts, prior, ncalls, dvars>>

\* a failed POST whose exception leaves get_token with the lock still held
PostFail_KeepsLock(p, c) ==
    /\ pc[p] = "await"
    /\ c \in RefreshFailures
    /\ cause' = [cause EXCEPT ![p] = c]
    /\ exc' = [exc EXCEPT ![p] = RefreshRaises(c)]
    /\ pc' = [pc EXCEPT ![p] = "raised"]
    /\ got' = Settle("fail", NoToken)
    /\ UNCHANGED <<now, xvars, token, token_expires_at, refresh_lock, ret, pend, minted, jtok, jexp, jnow,
                   nposts, prior, ncalls, dvars>>

\* _refresh_token lines 94-102: the POST failed; AuthenticationError leaves
\* get_token through the with block
PostFail(p, c) ==
    /\ pc[p] = "await"
    /\ c \in RefreshFailures
    /\ cause' = [cause EXCEPT ![p] = c]
    /\ exc' = [exc EXCEPT ![p] = RefreshRaises(c)]
    /\ pc' = [pc EXCEPT ![p] = "raised"]
    /\ refresh_lock' = refresh_lock \ {p}
    /\ got' = Settle("fail", NoToken)
    /\ UNCHANGED <<now, xvars, token, token_expires_at, ret, pend, minted, jtok, jexp, jnow,
                   nposts, prior, ncalls, dvars>>

\* _refresh_token lines 85-91 and 101-102: a 2xx answer whose expires_in is
\* beyond what datetime can add to the clock (10**12 seconds, say, passes
\* year 9999).  self._token is assigned at line 88, line 91 raises
\* OverflowError, the last handler turns it into AuthenticationError, and
\* line 92 is not reached.  The token gets its serial number and no expiry.
PostOverflow(p) ==
    /\ pc[p] = "await"
    /\ token' = Len(minted) + 1
    /\ minted' = Append(minted, [t0 |-> now, e |-> NoExpiry])
    /\ cause' = [cause EXCEPT ![p] = "overflow"]
    /\ exc' = [exc EXCEPT ![p] = RefreshRaises("overflow")]
    /\ pc' = [pc EXCEPT ![p] = "raised"]
    /\ refresh_lock' = refresh_lock \ {p}
    /\ got' = Settle("fail", NoToken)
    /\ UNCHANGED <<now, xvars, token_expires_at, ret, pend, jtok, jexp, jnow,
                   nposts, prior, ncalls, dvars>>

\* _refresh_token lines 91-92, then get_token line 66: the expiry is stored,
\* self._token is returned and the with block is left
SetExpiry(p) ==
    /\ pc[p] = "setexp"
    /\ token_expires_at' = now + pend[p]
    /\ minted' = Append(minted, [t0 |-> now, e |-> pend[p]])
    /\ pend' = [pend EXCEPT ![p] = 0]
    /\ ret' = [ret EXCEPT ![p] = token]
    /\ pc' = [pc EXCEPT ![p] = "ret"]
    /\ refresh_lock' = refresh_lock \ {p}
    /\ UNCHANGED <<now, xvars, token, cause, jtok, jexp, jnow, nposts, exc, prior, ncalls, got, dvars>>

\* ---- StarlinkClient._make_request, run by process 0 ----

\* requests.Response.ok: raise_for_status does not raise
IsOk(status) == ~(400 <= status /\ status < 600)

\* every attempt made so far was the given outcome
AllOuts(o) == \A i \in 1..Len(outs) : outs[i] = o

\* client.py:145: auth_header = self.token_manager.get_auth_header()
Dispatch ==
    /\ dpc = "init"
    /\ pc[Dispatcher] = "idle"
    /\ EnterGetToken(Dispatcher)
    /\ dpc' = "auth0"
    /\ UNCHANGED <<now, xvars, tmvars, ncalls, max_retries, attempt, hdr, outs, sent, touts, forced, ptout, dres, dstatus, ddetail, dbody, headers, obt, dcause>>

\* dict.update on the other keys: the entries of new, and those of old under
\* the names new does not have
DictUpdate(old, new) ==
    {e \in old : \A f \in new : f.name # e.name} \cup new

\* str.lstrip('/'), on a string given by its pieces
RECURSIVE Lstrip(_)
Lstrip(cs) == IF cs # <<>> /\ cs[1] = "/" THEN Lstrip(Tail(cs)) ELSE cs

\* client.py:142: url = f"{self.base_url}/{endpoint.lstrip('/')}"
Url(endpoint) == <<"{base_url}", "/">> \o Lstrip(endpoint)

\* client.py:148-150 and 171: dict.update, on the Authorization key: the
\* updating dict's entry, when it has one, replaces the entry there
Update(old, new) == IF new # NoHeader THEN new ELSE old

\* client.py:145-152: the header is built from the token, the caller's headers
\* are merged over it, and the loop is entered
HeadersBuilt ==
    /\ dpc = "auth0"
    /\ pc[Dispatcher] = "ret"
    /\ hdr' = Update(ret[Dispatcher], headers)
    /\ xhdr' = DictUpdate(NoOthers, rargs.others)
    /\ obt' = Append(obt, ret[Dispatcher])
    /\ attempt' = 0
    /\ dpc' = "loop"
    /\ UNCHANGED <<now, cvars, rargs, wire, tmvars, callvars, max_retries, outs, sent, touts, forced, ptout, dres, dstatus, ddetail,
                   dbody, headers, dcause>>

\* a failure of get_auth_header that is swallowed: the loop is entered, or
\* gone on with, as if a header had been returned
AuthRaised_Swallowed ==
    /\ dpc \in {"auth0", "reauth"}
    /\ pc[Dispatcher] = "raised"
    /\ attempt' = IF dpc = "auth0" THEN 0 ELSE attempt + 1
    /\ dpc' = "loop"
    /\ UNCHANGED <<now, xvars, tmvars, callvars, max_retries, hdr, outs, sent, touts, forced, ptout, dres, dstatus, ddetail, dbody, headers, obt, dcause>>

\* client.py:145 and 170: get_auth_header raised; line 145 is outside the try
\* and the handlers at lines 177 and 190 catch requests exceptions only, so
\* the exception leaves the call as it is
AuthRaised ==
    /\ dpc \in {"auth0", "reauth"}
    /\ pc[Dispatcher] = "raised"
    /\ ~IsA(exc[Dispatcher], "requests.RequestException")
    /\ dres' = exc[Dispatcher]
    /\ dpc' = "done"
    /\ UNCHANGED <<now, xvars, tmvars, callvars, max_retries, attempt, hdr, outs, sent, touts, forced, ptout, dstatus, ddetail, dbody, headers, obt, dcause>>

\* one requests.request call (client.py:154-161) is recorded
Record(out) ==
    /\ outs' = Append(outs, out)
    /\ sent' = Append(sent, hdr)
    /\ touts' = Append(touts, timeout)
    /\ wire' = Append(wire, [method |-> rargs.method, url |-> Url(rargs.endpoint),
                             params |-> rargs.params, json |-> rargs.json,
                             others |-> xhdr])

\* a success that is not returned: the loop goes on
AttemptOk_Continue(status) ==
    /\ dpc = "loop"
    /\ attempt <= max_retries
    /\ status \in Statuses
    /\ IsOk(status)
    /\ Record(status)
    /\ attempt' = attempt + 1
    /\ UNCHANGED <<now, cvars, rargs, xhdr, tmvars, callvars, max_retries, dpc, hdr, forced, ptout, dres, dstatus, ddetail, dbody, headers, obt, dcause>>

\* client.py:154-165: the attempt is answered with a success status
AttemptOk(status) ==
    /\ dpc = "loop"
    /\ attempt <= max_retries
    /\ status \in Statuses
    /\ IsOk(status)
    /\ Record(status)
    /\ dres' = "response"
    /\ dpc' = "done"
    /\ UNCHANGED <<now, cvars, rargs, xhdr, tmvars, callvars, max_retries, attempt, hdr, forced, ptout, dstatus, ddetail, dbody, headers, obt, dcause>>

\* client.py:168-170: the attempt is answered 401; get_auth_header is called
Attempt401 ==
    /\ dpc = "loop"
    /\ attempt <= max_retries
    /\ Record(401)
    /\ EnterGetToken(Dispatcher)
    /\ dpc' = "reauth"
    /\ UNCHANGED <<now, cvars, rargs, xhdr, tmvars, ncalls, max_retries, attempt, hdr, forced, ptout, dres, dstatus, ddetail, dbody, headers, obt, dcause>>

\* the retry after a 401 not counted as an iteration of the loop
Reauthenticated_NoCount ==
    /\ dpc = "reauth"
    /\ pc[Dispatcher] = "ret"
    /\ hdr' = Update(hdr, ret[Dispatcher])
    /\ obt' = Append(obt, ret[Dispatcher])
    /\ attempt' = attempt
    /\ dpc' = "loop"
    /\ UNCHANGED <<now, xvars, tmvars, callvars, max_retries, outs, sent, touts, forced, ptout, dres, dstatus, ddetail,
                   dbody, headers, dcause>>

\* the retry after a 401 sent with the headers as they were
Reauthenticated_KeepHeader ==
    /\ dpc = "reauth"
    /\ pc[Dispatcher] = "ret"
    /\ hdr' = hdr
    /\ obt' = Append(obt, ret[Dispatcher])
    /\ attempt' = attempt + 1
    /\ dpc' = "loop"
    /\ UNCHANGED <<now, xvars, tmvars, callvars, max_retries, outs, sent, touts, forced, ptout, dres, dstatus, ddetail,
                   dbody, headers, dcause>>

\* the retry after a 401 sent with headers built anew from the auth header
Reauthenticated_Rebuilt ==
    /\ dpc = "reauth"
    /\ pc[Dispatcher] = "ret"
    /\ hdr' = Update(hdr, ret[Dispatcher])
    /\ xhdr' = NoOthers
    /\ obt' = Append(obt, ret[Dispatcher])
    /\ attempt' = attempt + 1
    /\ dpc' = "loop"
    /\ UNCHANGED <<now, cvars, rargs, wire, tmvars, callvars, max_retries, outs, sent, touts, forced, ptout, dres, dstatus, ddetail,
                   dbody, headers, dcause>>

\* client.py:171-172: request_headers.update(auth_header); continue.  The
\* auth header has the Authorization key alone (auth.py:107)
Reauthenticated ==
    /\ dpc = "reauth"
    /\ pc[Dispatcher] = "ret"
    /\ hdr' = Update(hdr, ret[Dispatcher])
    /\ xhdr' = DictUpdate(xhdr, NoOthers)
    /\ obt' = Append(obt, ret[Dispatcher])
    /\ attempt' = attempt + 1
    /\ dpc' = "loop"
    /\ UNCHANGED <<now, cvars, rargs, wire, tmvars, callvars, max_retries, outs, sent, touts, forced, ptout, dres, dstatus, ddetail,
                   dbody, headers, dcause>>

\* client.py:178-182: e.response.json(), or e.response.text when that raises
ErrorDetail(body) ==
    IF body.parsed # "invalid" THEN <<"json", body.parsed>> ELSE <<"text", body.text>>

\* an error status that is retried like a transport failure
AttemptHttpError_Retried(status, body) ==
    /\ dpc = "loop"
    /\ attempt <= max_retries
    /\ status \in Statuses
    /\ body \in Bodies
    /\ ~IsOk(status)
    /\ status # 401
    /\ Record(status)
    /\ IF attempt = max_retries
       THEN /\ dres' = "StarlinkAPIError"
            /\ dstatus' = status
            /\ ddetail' = ErrorDetail(body)
            /\ dbody' = body
            /\ dcause' = [attr |-> NoCause, chained |-> Len(outs) + 1]
            /\ dpc' = "done"
            /\ attempt' = attempt
       ELSE /\ attempt' = attempt + 1
            /\ UNCHANGED <<dres, dstatus, ddetail, dbody, dcause, dpc>>
    /\ UNCHANGED <<now, cvars, rargs, xhdr, tmvars, callvars, max_retries, hdr, forced, ptout, headers, obt>>

\* client.py:175-188: any other error status raises StarlinkAPIError with the
\* status and the body of the response
AttemptHttpError(status, body) ==
    /\ dpc = "loop"
    /\ attempt <= max_retries
    /\ status \in Statuses
    /\ body \in Bodies
    /\ ~IsOk(status)
    /\ status # 401
    /\ Record(status)
    /\ dres' = "StarlinkAPIError"
    /\ dstatus' = status
    /\ ddetail' = ErrorDetail(body)
    /\ dbody' = body
    /\ dcause' = [attr |-> NoCause, chained |-> Len(outs) + 1]
    /\ dpc' = "done"
    /\ UNCHANGED <<now, cvars, rargs, xhdr, tmvars, callvars, max_retries, attempt, hdr, forced, ptout, headers, obt>>

\* the transport handler without its raise: the last failure too falls
\* through to the next turn of the loop
AttemptTransport_FallThrough ==
    /\ dpc = "loop"
    /\ attempt <= max_retries
    /\ Record(TransportFailure)
    /\ attempt' = attempt + 1
    /\ UNCHANGED <<dres, dpc, dcause>>
    /\ UNCHANGED <<now, cvars, rargs, xhdr, tmvars, callvars, max_retries, hdr, forced, ptout, dstatus, ddetail,
                   dbody, headers, obt>>

\* a transport failure retried once more than the budget allows
AttemptTransport_OneMore ==
    /\ dpc = "loop"
    /\ attempt <= max_retries + 1
    /\ Record(TransportFailure)
    /\ IF attempt = max_retries + 1
       THEN /\ dres' = "StarlinkClientError"
            /\ dcause' = [attr |-> NoCause, chained |-> Len(outs) + 1]
            /\ dpc' = "done"
            /\ attempt' = attempt
       ELSE /\ attempt' = attempt + 1
            /\ UNCHANGED <<dres, dpc, dcause>>
    /\ UNCHANGED <<now, cvars, rargs, xhdr, tmvars, callvars, max_retries, hdr, forced, ptout, dstatus, ddetail,
                   dbody, headers, obt>>

\* the transport handler giving up one attempt early
AttemptTransport_OneShort ==
    /\ dpc = "loop"
    /\ attempt <= max_retries
    /\ Record(TransportFailure)
    /\ IF attempt >= max_retries - 1
       THEN /\ dres' = "StarlinkClientError"
            /\ dcause' = [attr |-> NoCause, chained |-> Len(outs) + 1]
            /\ dpc' = "done"
            /\ attempt' = attempt
       ELSE /\ attempt' = attempt + 1
            /\ UNCHANGED <<dres, dpc, dcause>>
    /\ UNCHANGED <<now, cvars, rargs, xhdr, tmvars, callvars, max_retries, hdr, forced, ptout, dstatus, ddetail,
                   dbody, headers, obt>>

\* client.py:190-193: the call raised a RequestException that is no HTTPError
AttemptTransport ==
    /\ dpc = "loop"
    /\ attempt <= max_retries
    /\ Record(TransportFailure)
    /\ IF attempt = max_retries
       THEN /\ dres' = "StarlinkClientError"
            /\ dcause' = [attr |-> NoCause, chained |-> Len(outs) + 1]
            /\ dpc' = "done"
            /\ attempt' = attempt
       ELSE /\ attempt' = attempt + 1
            /\ UNCHANGED <<dres, dpc, dcause>>
    /\ UNCHANGED <<now, cvars, rargs, xhdr, tmvars, callvars, max_retries, hdr, forced, ptout, dstatus, ddetail,
                   dbody, headers, obt>>

\* client.py:195: the loop ended without a return or a raise; the error is
\* built from a message alone, outside any handler
Exhausted ==
    /\ dpc = "loop"
    /\ attempt > max_retries
    /\ dres' = "StarlinkClientError"
    /\ dcause' = NoCauses
    /\ dpc' = "done"
    /\ UNCHANGED <<now, xvars, tmvars, callvars, max_retries, attempt, hdr, outs, sent, touts, forced, ptout, dstatus, ddetail,
                   dbody, headers, obt>>

\* the clock advances
Tick ==
    /\ now < MaxTime
    /\ now' = now + 1
    /\ UNCHANGED <<xvars, tmvars, callvars, dvars>>

\* threads sharing one TokenManager
Next ==
    \/ \E p \in Callers : Call(p)
    \/ \E p \in Callers : FastCheck(p)
    \/ \E p \in Callers : FastReturn(p)
    \/ \E p \in Callers : Acquire(p)
    \/ \E p \in Callers : LockedReturn(p)
    \/ \E p \in Callers : Post(p)
    \/ \E p \in Callers, e \in ExpiresIn : PostOk(p, e)
    \/ \E p \in Callers, c \in {"http401", "transport"} : PostFail(p, c)
    \/ \E p \in Callers : SetExpiry(p)
    \/ Tick

Spec == Init /\ [][Next]_vars

\* the same threads making their calls within one second of the clock
NextLock ==
    \/ \E p \in Callers : Call(p)
    \/ \E p \in Callers : FastCheck(p)
    \/ \E p \in Callers : FastReturn(p)
    \/ \E p \in Callers : Acquire(p)
    \/ \E p \in Callers : LockedReturn(p)
    \/ \E p \in Callers : Post(p)
    \/ \E p \in Callers, e \in ExpiresIn : PostOk(p, e)
    \/ \E p \in Callers, c \in {"http401", "transport"} : PostFail(p, c)
    \/ \E p \in Callers : SetExpiry(p)

\* every thread is scheduled again and again, and every POST is answered or
\* fails in the end
SpecFair == Init /\ [][NextLock]_vars /\ WF_vars(NextLock)

\* a TokenManager on which an earlier call, at time 0, has stored a token
InitWarm ==
    /\ rargs = PlainRequest
    /\ InitCalls
    /\ BuiltManager
    /\ clientobj = NoClient
    /\ max_retries = DefaultMaxRetries
    /\ headers = NoHeader
    /\ pager = NoPager
    /\ \E e \in ExpiresIn :
          /\ token = 1
          /\ token_expires_at = e
          /\ minted = <<[t0 |-> 0, e |-> e]>>
          /\ ptout = {NoTimeout}

\* threads sharing a TokenManager that holds a token already
SpecWarm == InitWarm /\ [][Next]_vars

\* one thread calling get_auth_header again and again on its TokenManager,
\* the refresh failing in every way it can (line 63 is not reached, as in
\* NextReq)
NextAuth ==
    \/ Call(1)
    \/ CallAgain(1)
    \/ FastCheck(1)
    \/ FastReturn(1)
    \/ Acquire(1)
    \/ Post(1)
    \/ \E e \in ExpiresIn : PostOk(1, e)
    \/ \E c \in RefreshFailures : PostFail(1, c)
    \/ SetExpiry(1)
    \/ Tick

SpecAuth == Init /\ [][NextAuth]_vars

\* one thread calling again and again, the token endpoint also answering with
\* an expires_in too large for a datetime
NextStore ==
    \/ NextAuth
    \/ PostOverflow(1)

SpecStore == Init /\ [][NextStore]_vars

\* nothing is constructed yet; the arguments and the environment variables
\* of the constructions to come are any of the values above
InitCons ==
    /\ rargs = PlainRequest
    /\ InitCommon
    /\ api_secret \in SecretArgs
    /\ env_secret \in EnvSecrets
    /\ environment \in EnvironmentArgs
    /\ env_environment \in EnvEnvironments
    /\ tmobj = "none"
    /\ clientobj = NoClient
    /\ timeout = DefaultTimeout
    /\ max_retries = DefaultMaxRetries
    /\ headers = NoHeader

\* a TokenManager and a StarlinkClient are constructed from the same
\* arguments, and a thread makes the first get_auth_header call on the
\* TokenManager (its unlocked test cannot succeed, so line 58 is not reached)
NextCons ==
    \/ NewTokenManager
    \/ NewClient
    \/ Call(1)
    \/ FastCheck(1)
    \/ Acquire(1)
    \/ Post(1)
    \/ \E e \in ExpiresIn : PostOk(1, e)
    \/ \E c \in RefreshFailures : PostFail(1, c)
    \/ SetExpiry(1)
    \/ \E e \in ExpiresIn : OtherRefresh(e)
    \/ Tick

SpecCons == InitCons /\ [][NextCons]_vars

\* one dispatched request and the get_auth_header calls it makes, on a client
\* used by that one thread (so the freshness test under the lock, made after
\* the unlocked one failed, never succeeds and line 63 is not reached)
NextReq ==
    \/ Dispatch
    \/ HeadersBuilt
    \/ AuthRaised
    \/ \E status \in Statuses : AttemptOk(status)
    \/ Attempt401
    \/ Reauthenticated
    \/ \E status \in Statuses, body \in Bodies : AttemptHttpError(status, body)
    \/ AttemptTransport
    \/ Exhausted
    \/ FastCheck(Dispatcher)
    \/ FastReturn(Dispatcher)
    \/ Acquire(Dispatcher)
    \/ Post(Dispatcher)
    \/ \E e \in ExpiresIn : PostOk(Dispatcher, e)
    \/ \E c \in RefreshFailures : PostFail(Dispatcher, c)
    \/ SetExpiry(Dispatcher)
    \/ Tick

SpecReq == InitReq /\ [][NextReq]_vars

\* a request without headers of the caller's (they have no part in the
\* control flow of _make_request)
InitReqPlain ==
    /\ rargs = PlainRequest
    /\ InitCommon
    /\ BuiltManager
    /\ clientobj = BuiltClient
    /\ max_retries \in (-1)..MaxRetriesBound
    /\ headers = NoHeader

\* one dispatched request for each of the requests tried, the caller giving
\* no Authorization header of its own
InitReqArgs ==
    /\ InitCommon
    /\ BuiltManager
    /\ clientobj = BuiltClient
    /\ max_retries \in (-1)..MaxRetriesBound
    /\ headers = NoHeader
    /\ rargs \in RequestArgs

SpecReqArgs == InitReqArgs /\ [][NextReq]_vars

\* such a request, with every step that can be taken taken in the end: each
\* HTTP call returns or fails, and the thread running the request keeps
\* running
SpecReqFair == InitReqPlain /\ [][NextReq]_vars /\ WF_vars(NextReq)

\* the limit a list call or build_query_params puts in the query parameters
NextLimit ==
    \/ \E limit \in LimitArgs : TerminalsList(limit)
    \/ \E limit \in LimitArgs : AlertsList(limit)
    \/ \E limit \in LimitArgs : BuildQueryParams(IntArg(limit))
    \/ BuildQueryParams(NoArg)

SpecLimit == Init /\ [][NextLimit]_vars

\* a PaginationHelper over a collection of 1..MaxServerPages pages
InitPages ==
    /\ rargs = PlainRequest
    /\ InitCalls
    /\ NoStore
    /\ BuiltManager
    /\ clientobj = NoClient
    /\ max_retries = DefaultMaxRetries
    /\ headers = NoHeader
    /\ \E npages \in 1..MaxServerPages, last \in LastCursors : pager = NewPager(npages, last)

NextPages ==
    \/ GetNextPage
    \/ \E max_pages \in MaxPagesArgs : GetAllItems(max_pages)
    \/ FetchPage
    \/ ReturnItems
    \/ GetNextPageRaises
    \/ FetchRaises

SpecPages == InitPages /\ [][NextPages]_vars

\* validate_terminal_id applied to the ids tried
NextIds == \E terminal_id \in TerminalIdArgs : ValidateTerminalId(terminal_id)

SpecIds == Init /\ [][NextIds]_vars

\* ---- properties ----

Done(p) == pc[p] \in {"ret", "raised"}
Returned(p) == pc[p] = "ret"
Settled(p) == got[p].k \in {"ok", "fail"}

\* the instant at which a refresh computed the expiry of token tok
T0Of(tok) == IF tok \in 1..Len(minted) THEN minted[tok].t0 ELSE 0

\* token tok exists and instant t lies before its expiry less the skew
FreshAt(tok, t) == tok \in 1..Len(minted) /\ t < ExpiryOf(tok) - SKEW

\* the instant a returning call took its token for usable: that of its last
\* freshness test, or, when it refreshed, that of the refresh
JudgedAt(p) == IF nposts[p] > 0 THEN T0Of(ret[p]) ELSE jnow[p]

\* the call's last freshness test found a token stored with an expiry more
\* than SKEW seconds ahead
JudgedFresh(p) ==
    /\ jtok[p] # NoToken
    /\ jexp[p] # NoExpiry
    /\ jnow[p] + SKEW < jexp[p]

\* C1: in every reachable state at most one POST to the token endpoint is in
\* flight (issued and not yet answered), however many threads are calling.
C1_SingleFlight == Cardinality(InFlight) <= 1

\* C1 witness: a POST is in flight while another caller waits for the lock.
C1_Witness ==
    \E p, q \in Callers : p # q /\ pc[p] = "await" /\ pc[q] = "acquire"

C4_ReturnsFresh ==
    \A p \in Callers : Returned(p) => FreshAt(ret[p], JudgedAt(p))

C6_FreshnessWindow ==
    \A p \in Callers :
        (/\ pc[p] \notin {"idle", "check"}
         /\ jtok[p] \in 1..Len(minted)
         /\ jexp[p] = ExpiryOf(jtok[p])) =>
            LET T0 == minted[jtok[p]].t0
                E  == minted[jtok[p]].e
                t  == jnow[p]
            IN  /\ T0 <= t
                /\ (t < T0 + E - SKEW =>
                        /\ nposts[p] = 0
                        /\ pc[p] \in {"fastret", "lret", "ret"}
                        /\ (Returned(p) /\ token = jtok[p] => ret[p] = jtok[p]))
                /\ (t >= T0 + E - SKEW =>
                        \/ pc[p] \in {"acquire", "post"}
                        \/ nposts[p] = 1)

\* C6 witness: a token with a non-empty window was tested exactly at
\* T0 + E - 30 and the call went on to a POST of its own.
C6_Witness ==
    \E p \in Callers :
        /\ Done(p) /\ jtok[p] \in 1..Len(minted)
        /\ jexp[p] = ExpiryOf(jtok[p])
        /\ minted[jtok[p]].e > SKEW
        /\ jnow[p] = minted[jtok[p]].t0 + minted[jtok[p]].e - SKEW
        /\ nposts[p] = 1

\* an attempt that was answered with a success status
Succeeded(o) == o # TransportFailure /\ IsOk(o)

\* C7 as stated: a request whose first attempt is answered 401 is followed by
\* exactly one forced refresh and one retried attempt (none only when that
\* refresh fails); if the retried attempt is answered 401 too the call fails
\* with an Authentication error and makes no third attempt, whatever
\* max_retries is.
C7_OneReauthRetry ==
    (dpc = "done" /\ Len(outs) >= 1 /\ outs[1] = 401) =>
        /\ forced >= 1
        /\ (Len(outs) = 1 => dres = "AuthenticationError")
        /\ (Len(outs) >= 2 /\ outs[2] = 401 =>
                /\ Len(outs) = 2
                /\ forced = 1
                /\ dres = "AuthenticationError")

\* C8 as stated: after an attempt answered 401 the next attempt carries a
\* token produced by a refresh made in between, never the rejected token,
\* even when the cached token was still inside its freshness window.
C8_ForcedRefresh ==
    \A i \in 1..(Len(sent) - 1) : outs[i] = 401 => sent[i + 1] # sent[i]

\* C9: a request whose every attempt fails at transport level makes exactly
\* max_retries + 1 attempts and then fails with a Client error, for every
\* max_retries >= 0; it does not end before.
C9_TransportExhaustion ==
    (max_retries >= 0 /\ Len(outs) >= 1 /\ AllOuts(TransportFailure)) =>
        /\ Len(outs) <= max_retries + 1
        /\ (Len(outs) < max_retries + 1 => dpc = "loop" /\ dres = "none")
        /\ (Len(outs) = max_retries + 1 =>
                dpc = "done" /\ dres = "StarlinkClientError")

\* C9 witness: with max_retries >= 1 every attempt failed at transport level
\* and the call ended after max_retries + 1 attempts.
C9_Witness ==
    /\ max_retries >= 1
    /\ dpc = "done"
    /\ Len(outs) = max_retries + 1
    /\ AllOuts(TransportFailure)

\* C10: when the first k attempts fail at transport level (k <= max_retries)
\* and attempt k+1 is answered with a success status, the call returns that
\* response after exactly k+1 attempts: no attempt follows a success.
C10_SuccessAfterFailures ==
    /\ \A i \in 1..Len(outs) : Succeeded(outs[i]) =>
            /\ i = Len(outs)
            /\ dpc = "done"
            /\ dres = "response"
    /\ \A k \in 0..(max_retries + 1) :
            (/\ Len(outs) >= k + 1
             /\ \A i \in 1..k : outs[i] = TransportFailure
             /\ Succeeded(outs[k + 1]))
                => Len(outs) = k + 1 /\ k <= max_retries

\* C10 witness: two transport failures, then a 200 answer, returned.
C10_Witness ==
    /\ outs = <<TransportFailure, TransportFailure, 200>>
    /\ dres = "response"

\* an attempt that was answered with an error status other than 401
HttpError(o) == o # TransportFailure /\ ~IsOk(o) /\ o # 401

\* C11: an attempt answered with a non-success status other than 401 ends
\* the call at once with an API error whose status_code is that status and
\* whose detail is the response body (the parsed JSON, else the raw text);
\* no attempt follows it, whatever is left of the retry budget.
C11_HttpErrorFailsAtOnce ==
    /\ \A i \in 1..Len(outs) : HttpError(outs[i]) =>
            /\ i = Len(outs)
            /\ dpc = "done"
            /\ dres = "StarlinkAPIError"
            /\ dstatus = outs[i]
            /\ dbody \in Bodies
            /\ ddetail = IF dbody.parsed # "invalid"
                         THEN <<"json", dbody.parsed>>
                         ELSE <<"text", dbody.text>>
    /\ (dres = "StarlinkAPIError" =>
            /\ Len(outs) >= 1
            /\ HttpError(outs[Len(outs)])
            /\ ddetail # NoDetail)

\* C11 witness: the first attempt of a request with retries left was
\* answered 500 with a JSON body, and the call ended there.
C11_Witness ==
    /\ max_retries >= 1
    /\ outs = <<500>>
    /\ dres = "StarlinkAPIError"
    /\ dstatus = 500
    /\ ddetail = <<"json", "error=x">>

\* how many attempts so far had the given outcome
CountOuts(o) == Cardinality({i \in 1..Len(outs) : outs[i] = o})

\* C12 as stated: the retry after a 401 and the retries after transport
\* failures are counted apart: a request that saw one 401 and otherwise only
\* transport failures, and gave up, has made max_retries + 1 attempts that
\* failed at transport level (max_retries transport retries).
C12_IndependentBudgets ==
    (/\ dpc = "done"
     /\ dres = "StarlinkClientError"
     /\ max_retries >= 0
     /\ CountOuts(401) = 1
     /\ CountOuts(TransportFailure) = Len(outs) - 1)
        => CountOuts(TransportFailure) = max_retries + 1

\* C13 as stated: once get_auth_header has failed because the token endpoint
\* answered 401, the call has raised an Authentication error and the manager
\* holds no token: one stored by an earlier refresh is gone from the store.
C13_NoStaleTokenLeft ==
    \A p \in Callers :
        (pc[p] = "raised" /\ cause[p] = "http401") =>
            /\ exc[p] = "AuthenticationError"
            /\ token = NoToken

\* C14: every failure of the refresh (a 401, a 403, another error status, a
\* transport error, an unusable body) makes get_auth_header raise
\* AuthenticationError and nothing else, with the lock released; the next
\* call on the manager goes to a refresh of its own.
C14_RefreshFailureIsAuthError ==
    \A p \in Callers :
        /\ (pc[p] = "raised" <=> cause[p] \in RefreshFailures)
        /\ (pc[p] = "raised" =>
                /\ exc[p] = "AuthenticationError"
                /\ nposts[p] = 1
                /\ p \notin refresh_lock)
        /\ (pc[p] # "raised" => exc[p] = "")
        /\ (prior[p] /\ pc[p] \notin {"idle", "check"} =>
                /\ pc[p] \in {"acquire", "post", "await", "setexp", "ret", "raised"}
                /\ (Done(p) => nposts[p] = 1))

\* C14 witness: a call failed, the next call on the manager issued a POST of
\* its own, and that one failed on an unusable body.
C14_Witness ==
    \E p \in Callers :
        /\ prior[p]
        /\ pc[p] = "raised"
        /\ cause[p] = "badbody"
        /\ nposts[p] = 1

\* C15 as stated: every failing outcome of a dispatched request or of
\* get_auth_header reaches the caller as an error of the taxonomy rooted at
\* StarlinkError in exceptions.py (Authentication, API or Client error), and
\* no failure becomes a normal return.
C15_TaxonomyClosed ==
    /\ (dpc = "done" /\ dres # "response" => IsA(dres, "StarlinkError"))
    /\ (pc[Dispatcher] = "raised" => IsA(exc[Dispatcher], "StarlinkError"))
    /\ (dres = "response" => Len(outs) >= 1 /\ Succeeded(outs[Len(outs)]))

\* the specialization of API error that belongs to a status
ErrorFor(status) ==
    CASE status = 429 -> "RateLimitError"
      [] status = 422 -> "ValidationError"
      [] status = 404 -> "NotFoundError"
      [] status = 403 -> "PermissionError"
      [] OTHER -> "StarlinkAPIError"

\* C16 as stated: the error of a response is a function of its status: 429,
\* 422, 404 and 403 fail with the Rate-limit, Validation, Not-found and
\* Permission specialization of API error, every other error status but 401
\* with the plain API error.
C16_StatusMapsToError ==
    (dpc = "done" /\ Len(outs) >= 1 /\ HttpError(outs[Len(outs)])) =>
        /\ IsA(dres, ErrorFor(outs[Len(outs)]))
        /\ (ErrorFor(outs[Len(outs)]) = "StarlinkAPIError" => dres = "StarlinkAPIError")

\* C17 as stated: an Authorization header supplied by the caller is the one
\* sent on every attempt of the request, the attempt after a 401 included.
C17_CallerHeaderWins ==
    headers = CallerAuth => \A i \in 1..Len(sent) : sent[i] = CallerAuth

\* how many of the attempts before attempt i were answered 401
Reauths(i) == Cardinality({j \in 1..(i - 1) : outs[j] = 401})

\* C18: when the caller supplies no Authorization header, every attempt
\* carries the token the request obtained last from the token manager (the
\* first one, or the one obtained after the latest 401), and none goes
\* without a token.
C18_BearerOnEveryAttempt ==
    headers = NoHeader =>
        /\ Len(sent) = Len(outs)
        /\ \A i \in 1..Len(sent) :
               /\ sent[i] # NoToken
               /\ sent[i] \in 1..(Len(minted) + 1)
               /\ Reauths(i) + 1 <= Len(obt)
               /\ sent[i] = obt[Reauths(i) + 1]
        /\ (dpc = "loop" => hdr = obt[Len(obt)])

\* C18 witness: a 401 was followed by a refresh, and the next attempt carried
\* the new token, not the first one.
C18_Witness ==
    /\ headers = NoHeader
    /\ Len(sent) >= 2
    /\ outs[1] = 401
    /\ sent[2] # sent[1]
    /\ sent[2] = obt[2]

\* C19 as stated: a Client error raised after the attempts are exhausted
\* carries the failure of the last attempt as its cause (as the cause
\* attribute or as __cause__), never nothing.
C19_CausePreserved ==
    (dres = "StarlinkClientError" /\ Len(outs) >= 1) =>
        \/ dcause.attr = Len(outs)
        \/ dcause.chained = Len(outs)

\* the attempts range(self.max_retries + 1) allows
AttemptBound == IF max_retries >= 0 THEN max_retries + 1 ELSE 0

\* C20: every dispatched request ends (returns a response or raises), and
\* never makes more than max_retries + 1 attempts, whatever the server
\* answers, a 401 to every attempt included, as long as every HTTP call
\* returns or fails.
C20_BoundedTermination ==
    /\ [](Len(outs) <= AttemptBound)
    /\ <>(dpc = "done")

\* C20 witness: every attempt of a request with max_retries >= 1 was
\* answered 401, and the request ended after max_retries + 1 attempts.
C20_Witness ==
    /\ max_retries >= 1
    /\ dpc = "done"
    /\ Len(outs) = max_retries + 1
    /\ AllOuts(401)

\* no credential is supplied and none resolves from the environment
NoCredential == ~Truthy(api_secret) /\ ~Truthy(env_secret)

\* C21 as stated: with no credential (an empty string counting as none),
\* constructing a TokenManager, directly or through the construction of a
\* client with a valid environment, fails with an Authentication error and
\* leaves no manager and no client.
C21_NoCredentialFails ==
    NoCredential =>
        /\ (tmobj # "none" => tmobj = "AuthenticationError")
        /\ (clientobj.res # "none" /\ ResolvedEnvironment \in EnvironmentUrls =>
                /\ clientobj.res = "AuthenticationError"
                /\ "token_manager" \notin clientobj.attrs)

\* C22 as stated: constructing StarlinkClient with a valid environment name
\* and a resolvable credential succeeds; the client owns a TokenManager and
\* has the given timeout and max_retries.
C22_ClientConstructs ==
    (/\ clientobj.res # "none"
     /\ ResolvedEnvironment \in EnvironmentUrls
     /\ ~NoCredential) =>
        /\ clientobj.res = "built"
        /\ {"token_manager", "timeout", "max_retries"} \subseteq clientobj.attrs

\* C23: a constructed TokenManager has made no request and holds no token
\* until get_auth_header is called on it; the first POST to the token
\* endpoint is issued inside the first get_auth_header call.
C23_LazyToken ==
    /\ (tmobj = "built" /\ pc[1] = "idle" =>
            /\ token = NoToken
            /\ token_expires_at = NoExpiry
            /\ refresh_lock = {}
            /\ minted = <<>>
            /\ ptout = {})
    /\ (tmobj # "built" => ptout = {} /\ token = NoToken)
    /\ (ptout # {} => pc[1] \in {"await", "setexp", "ret", "raised"})

\* C23 witness: the manager was constructed from the environment's
\* credential and the first call on it has its POST in flight.
C23_Witness ==
    /\ tmobj = "built"
    /\ ~Truthy(api_secret)
    /\ pc[1] = "await"
    /\ nposts[1] = 1
    /\ token = NoToken

\* C24 as stated: every HTTP call, each attempt of a dispatched request and
\* each refresh POST, is given the client's timeout, every attempt the whole
\* of it.
C24_EveryCallTimed ==
    /\ timeout # NoTimeout
    /\ \A i \in 1..Len(touts) : touts[i] = timeout
    /\ \A t \in ptout : t = timeout

\* a refresh on either TokenManager leaves the other one's token and expiry
\* as they were
OtherManagerUntouched ==
    /\ ((\E e \in ExpiresIn : PostOk(1, e)) \/ (\E c \in RefreshFailures : PostFail(1, c))
            \/ SetExpiry(1)) => UNCHANGED <<token2, token_expires_at2>>
    /\ (\E e \in ExpiresIn : OtherRefresh(e)) => UNCHANGED <<token, token_expires_at>>

\* C26 as stated: token state is per instance, a successful or failed refresh
\* on one TokenManager leaving the token and expiry of the other unchanged,
\* and a client, once constructed from a valid environment and a credential,
\* owns a TokenManager of its own.
C26_PerInstance ==
    /\ [][OtherManagerUntouched]_vars
    /\ [](clientobj.res # "none" /\ ResolvedEnvironment \in EnvironmentUrls /\ ~NoCredential
            => "token_manager" \in clientobj.attrs)

\* the limit that goes out with the request, read back from the parameters
Transmitted ==
    IF ures.kind = "str" THEN ParseNat(ures.val) ELSE ures.val

\* C27: for every integer limit passed to TerminalsAPI.list, AlertsAPI.list
\* or build_query_params, the limit transmitted is min(max(limit, 1), 500):
\* 1 below the range, 500 above it, the limit itself inside it; the helper
\* sends it as its decimal digits.
C27_LimitClamped ==
    uarg.kind = "int" =>
        /\ ures.kind = (IF uop = "build_query_params" THEN "str" ELSE "int")
        /\ ures.kind = "str" =>
                /\ Len(ures.val) \in 1..3
                /\ \A i \in 1..Len(ures.val) : \E d \in 0..9 : Digits[d + 1] = ures.val[i]
                /\ ures.val[1] # "0"
        /\ Transmitted \in 1..500
        /\ Transmitted = (IF uarg.val < 1 THEN 1 ELSE IF uarg.val > 500 THEN 500 ELSE uarg.val)
        /\ (uarg.val \in 1..500 => Transmitted = uarg.val)

\* C27 witness: build_query_params was given a limit above the range and
\* put "500" in the parameters.
C27_Witness ==
    /\ uop = "build_query_params"
    /\ uarg.kind = "int"
    /\ uarg.val > 500
    /\ ures.kind = "str"
    /\ ures.val = <<"5", "0", "0">>

\* get_all_items is running or has just returned, so that pager.fetched is the
\* number of pages it fetched
InAllItems == pager.state = "loop" \/ (pager.state = "idle" /\ pager.ret = "items")

\* C28 as stated: get_all_items(max_pages=m) fetches at most m pages for every
\* integer m >= 0; only max_pages=None is unlimited.
C28_MaxPagesBounds ==
    InAllItems /\ pager.max_pages.kind = "int" =>
        pager.fetched <= pager.max_pages.val

\* C29: validate_terminal_id(s) is True exactly when s is a string of 1 to 64
\* characters which, with every '-' and '_' taken out, is not empty and is
\* alphanumeric throughout; it is False for the empty string and for every
\* string with a space in it.
C29_TerminalIdValid ==
    uop = "validate_terminal_id" =>
        /\ ures.kind = "bool"
        /\ ures.val <=>
              /\ uarg.kind = "str"
              /\ Len(uarg.val) \in 1..64
              /\ LET rest == SelectSeq(uarg.val, LAMBDA c : c \notin {"-", "_"})
                 IN  /\ Len(rest) >= 1
                     /\ \A i \in 1..Len(rest) : rest[i] \in AlnumChars
        /\ (uarg.kind = "str" /\ uarg.val = <<>> => ~ures.val)
        /\ (uarg.kind = "str" /\ (\E i \in 1..Len(uarg.val) : uarg.val[i] = " ") => ~ures.val)

\* C29 witness: an id of exactly 64 characters with a '-' and a '_' in it was
\* found valid.
C29_Witness ==
    /\ uop = "validate_terminal_id"
    /\ uarg.kind = "str"
    /\ Len(uarg.val) = 64
    /\ uarg.val[1] = "-"
    /\ uarg.val[2] = "_"
    /\ ures.val

\* C30: whatever mix of 401 answers, transport failures and other outcomes
\* its attempts meet, one dispatched request sends at most max_retries + 1
\* HTTP requests to the resource endpoint (none when max_retries < 0), each
\* attempt being one such request.
C30_AttemptBudget ==
    /\ Len(sent) = Len(outs)
    /\ Len(sent) <= AttemptBound
    /\ CountOuts(401) + CountOuts(TransportFailure) <= AttemptBound
    /\ (dpc = "loop" => Len(outs) = attempt)

\* C30 witness: a request with max_retries >= 2 met both 401 answers and
\* transport failures, used max_retries + 1 attempts and ended.
C30_Witness ==
    /\ max_retries >= 2
    /\ dpc = "done"
    /\ Len(outs) = max_retries + 1
    /\ CountOuts(401) >= 1
    /\ CountOuts(TransportFailure) >= 1
    /\ outs[1] = 401
    /\ outs[Len(outs)] = TransportFailure

\* C25: a call whose unlocked test finds the stored token fresh returns
\* without taking the refresh lock: the test and the return can be made
\* whoever holds the lock, and only calls whose test failed go for the lock.
C25_FastPathLockFree ==
    \A p \in Callers :
        /\ (pc[p] = "check" => ENABLED FastCheck(p))
        /\ (pc[p] = "fastret" =>
                /\ JudgedFresh(p)
                /\ p \notin refresh_lock
                /\ ENABLED FastReturn(p))
        /\ (pc[p] = "acquire" => ~JudgedFresh(p))
        /\ (p \in refresh_lock => pc[p] \in {"lret", "post", "await", "setexp"})

\* C25 witness: one caller is on the fast path, between its test and its
\* return, while another holds the lock with a POST in flight.
C25_Witness ==
    \E p, q \in Callers :
        /\ p # q
        /\ pc[p] = "fastret"
        /\ pc[q] = "await"
        /\ q \in refresh_lock
\* C31: every attempt of a dispatched request goes out with the method, URL,
\* query parameters, body and non-Authorization headers the request was
\* called with (the Idempotency-Key included), the same on every attempt; the
\* Authorization header differs between two successive attempts only when
\* the earlier one was answered 401.
C31_OnlyAuthorizationChanges ==
    /\ Len(wire) = Len(outs)
    /\ \A i \in 1..Len(wire) :
           /\ wire[i] = wire[1]
           /\ wire[i].method = rargs.method
           /\ wire[i].params = rargs.params
           /\ wire[i].json = rargs.json
           /\ wire[i].others = rargs.others
           /\ wire[i].url \in {<<"{base_url}", "/", "v1", "/", "terminals">>,
                                <<"{base_url}", "/", "v1", "/", "alerts">>}
    /\ \A i \in 1..(Len(sent) - 1) : sent[i + 1] # sent[i] => outs[i] = 401

\* C31 witness: a PATCH with an Idempotency-Key was answered 401, then failed
\* at transport level, and went out a third time; the second attempt carried
\* another token than the first.
C31_Witness ==
    /\ rargs = KeyedRequest
    /\ Len(wire) = 3
    /\ outs[1] = 401
    /\ outs[2] = TransportFailure
    /\ sent[2] # sent[1]
    /\ \E e \in wire[3].others : e.name = "Idempotency-Key" /\ e.value = "unique_key_456"

\* the call ended with the error raised after the loop (client.py:195), which
\* has no __cause__
FellThrough == dpc = "done" /\ dres = "StarlinkClientError" /\ dcause = NoCauses

\* C32: the error raised after the loop is reached only when the last of the
\* max_retries + 1 attempts was answered 401, or when max_retries < 0 and no
\* attempt was made; a transport failure on the last attempt and any error
\* status other than 401 raise from inside the loop, from their handlers.
C32_FallThroughOnlyAfter401 ==
    /\ FellThrough =>
            \/ max_retries < 0 /\ outs = <<>>
            \/ /\ max_retries >= 0
               /\ Len(outs) = max_retries + 1
               /\ outs[Len(outs)] = 401
    /\ (dpc = "done" /\ outs # <<>> /\ outs[Len(outs)] = TransportFailure) =>
            /\ dres = "StarlinkClientError"
            /\ dcause.chained = Len(outs)
            /\ Len(outs) = max_retries + 1
    /\ \A i \in 1..Len(outs) : HttpError(outs[i]) =>
            /\ i = Len(outs)
            /\ dpc = "done"
            /\ dres = "StarlinkAPIError"
            /\ dcause.chained = i

\* C32 witness: after a transport failure, the last attempt was answered
\* 401 and the call ended with the error raised after the loop.
C32_Witness ==
    /\ FellThrough
    /\ max_retries >= 1
    /\ outs[1] = TransportFailure
    /\ outs[Len(outs)] = 401

\* a step in which a refresh fails: a call leaves the POST by raising
RefreshFails == \E p \in Procs : pc[p] = "await" /\ pc'[p] = "raised"

\* a step of a successful refresh: the token is stored, or its expiry
RefreshStores ==
    \E p \in Procs :
        \/ pc[p] = "await" /\ pc'[p] = "setexp"
        \/ pc[p] = "setexp" /\ pc'[p] = "ret"

\* C33 as stated: a failed refresh leaves the stored token and the stored
\* expiry exactly as they were before the call; only a successful refresh
\* changes them, and it replaces both, so that outside a refresh the stored
\* expiry is the one of the stored token.
C33_FailedRefreshKeepsStore ==
    /\ [][RefreshFails => UNCHANGED <<token, token_expires_at>>]_vars
    /\ [][(token' # token \/ token_expires_at' # token_expires_at) => RefreshStores]_vars
    /\ []((\A p \in Procs : pc[p] # "setexp") =>
              /\ (token = NoToken <=> token_expires_at = NoExpiry)
              /\ (token # NoToken => token_expires_at = ExpiryOf(token)))

\* C34: the refresh lock has one holder at most and is held only by a thread
\* inside the with block of get_token; it is released on every way out, a
\* failed refresh included, so that every caller waiting for the lock gets it
\* in the end and returns or raises, when the threads keep running and the
\* POST in flight is answered or fails.
C34_LockReleased ==
    /\ [](Cardinality(refresh_lock) <= 1)
    /\ [](\A p \in Callers :
             p \in refresh_lock <=> pc[p] \in {"lret", "post", "await", "setexp"})
    /\ \A p \in Callers : (pc[p] = "acquire") ~> Done(p)

\* C34 witness: a caller that was waiting while another caller's POST was in
\* flight holds the lock after that POST failed.
C34_Witness ==
    \E p, q \in Callers :
        /\ p # q
        /\ pc[q] = "raised"
        /\ got[p].k = "fail"
        /\ p \in refresh_lock
        /\ pc[p] = "await"

\* C35 as stated: a call that returns without refreshing returns the value
\* its freshness test was made on, the token that the expiry it was judged
\* by belongs to, whatever a refresh running beside it writes meanwhile.
C35_JudgedValueReturned ==
    \A p \in Callers :
        (Returned(p) /\ nposts[p] = 0 /\ JudgedFresh(p)) =>
            /\ ret[p] = jtok[p]
            /\ ExpiryOf(ret[p]) = jexp[p]

\* the first get_auth_header call of the request has raised: no token was
\* ever returned to the request
FirstAuthFailed == pc[Dispatcher] = "raised" /\ obt = <<>>

\* C36: when the first get_auth_header call of a dispatched request fails,
\* the request is over as soon as the dispatcher runs again, it raises the
\* very AuthenticationError of that call, and no HTTP request has gone to the
\* resource endpoint.
C36_AuthFailureSendsNothing ==
    FirstAuthFailed =>
        /\ outs = <<>> /\ sent = <<>> /\ wire = <<>>
        /\ exc[Dispatcher] = "AuthenticationError"
        /\ dpc \in {"auth0", "done"}
        /\ (dpc = "auth0" => ENABLED AuthRaised)
        /\ (dpc = "done" => dres = exc[Dispatcher] /\ dcause = NoCauses)

\* C36 witness: the token endpoint answered 500 to the first refresh and the
\* request ended with AuthenticationError.
C36_Witness ==
    /\ FirstAuthFailed
    /\ cause[Dispatcher] = "http500"
    /\ dpc = "done"
    /\ dres = "AuthenticationError"

\* next_cursor is a string with a character in it
CursorNonEmpty == pager.next_cursor.kind = "str" /\ Len(pager.next_cursor.val) >= 1

\* C37: once a get_next_page call has succeeded, has_more is True exactly
\* when next_cursor is non-empty; when has_more is False it stays False, the
\* list method is not called again, and get_next_page returns None.
C37_HasMoreTracksCursor ==
    /\ [](pager.calls > pager.raises => (pager.has_more <=> CursorNonEmpty))
    /\ [](pager.calls = pager.raises => pager.has_more /\ pager.next_cursor = NoArg)
    /\ [][~pager.has_more =>
              /\ ~pager'.has_more
              /\ pager'.calls = pager.calls
              /\ pager'.next_cursor = pager.next_cursor]_vars
    /\ [][(GetNextPage /\ ~pager.has_more) => pager'.ret = "None"]_vars

\* C37 witness: every one of two pages or more was fetched, has_more went
\* False, and a further get_next_page returned None.
C37_Witness ==
    /\ pager.npages >= 2
    /\ pager.calls - pager.raises = pager.npages
    /\ ~pager.has_more
    /\ pager.state = "idle"
    /\ pager.ret = "None"

\* C38: when the list method raises inside get_next_page, next_cursor and
\* has_more are as they were before the call, and the next call of the list
\* method asks for the same page again.
C38_RaiseKeepsCursor ==
    /\ [][pager'.raises # pager.raises =>
              /\ pager'.next_cursor = pager.next_cursor
              /\ pager'.has_more = pager.has_more
              /\ pager'.calls = pager.calls + 1]_vars
    /\ [][(pager.ret = "raised" /\ pager'.calls # pager.calls) =>
              pager'.asked = pager.asked]_vars

\* C38 witness: the call for a page after the first raised, and the call
\* made next fetched that same page.
C38_Witness ==
    /\ pager.ret = "page"
    /\ pager.failed = pager.asked
    /\ pager.asked >= 2
====
